---- MODULE Spec2Model ----
(***************************************************************************)
(* Model of github.com/kortschak/graphprac: the attribute list attached to *)
(* nodes and edges (Attributes.Get / Attributes.Set), the attributed       *)
(* undirected graph (Graph.NewNode / Graph.NewEdge over gonum's            *)
(* simple.UndirectedGraph) and the node-induced view (Induce).             *)
(***************************************************************************)
EXTENDS Integers, Sequences, FiniteSets, TLC

(***************************************************************************)
(* Bounds of the model.                                                    *)
(***************************************************************************)
\* A Set call is made only while the list holds fewer pairs than this.
MaxAttrs == 4

\* Node IDs the callers and the ID allocator draw from are 0..MaxID.
MaxID == 2

\* At most this many Node objects are allocated.
MaxObjs == 3

\* Induce is called with at most this many nodes in by.
MaxBy == 2

\* The most attribute pairs held by the nodes and edges of a graph together.
MaxPairs == 3

\* The most analysis passes run on one graph.
MaxRuns == 2

\* The largest clique size asked of Clique.
MaxK == 3

\* Attribute keys and values the callers draw from; "" is Go's empty string.
Keys == {"k1", "k2", "k3"}
Values == {"", "x", "y"}

(***************************************************************************)
(* Attributes: type Attributes []dot.Attribute, a slice of Key/Value pairs.*)
(***************************************************************************)
Attribute(k, v) == [Key |-> k, Value |-> v]

\* The index of the first pair at or after position i whose Key is attr,
\* 0 when there is none: the scan "for i, kv := range a { if kv.Key == attr".
RECURSIVE Scan(_, _, _)
Scan(a, attr, i) ==
    IF i > Len(a) THEN 0
    ELSE IF a[i].Key = attr THEN i
    ELSE Scan(a, attr, i + 1)

\* func (a Attributes) Get(attr string) string
Get(a, attr) ==
    LET i == Scan(a, attr, 1)
    IN  IF i # 0 THEN a[i].Value ELSE ""

\* Set as it would be if it never looked for the key.
SetAppendOnly(a, attr, value) ==
    Append(a, Attribute(attr, value))

\* Set as it would be if unsetting blanked the value and kept the pair.
SetBlankOnDelete(a, attr, value) ==
    LET i == Scan(a, attr, 1)
    IN  IF i # 0
        THEN [a EXCEPT ![i].Value = value]
        ELSE Append(a, Attribute(attr, value))

\* Set as it would be if unsetting copied the last pair and did not truncate.
SetNoTruncate(a, attr, value) ==
    LET i == Scan(a, attr, 1)
    IN  IF i # 0
        THEN IF value # ""
             THEN [a EXCEPT ![i].Value = value]
             ELSE [a EXCEPT ![i] = a[Len(a)]]
        ELSE Append(a, Attribute(attr, value))

\* Set as it would be if overwriting took the pair out and put it at the end.
SetMoveToEnd(a, attr, value) ==
    LET i == Scan(a, attr, 1)
    IN  IF i # 0
        THEN IF value # ""
             THEN Append(SubSeq(a, 1, i - 1) \o SubSeq(a, i + 1, Len(a)),
                         Attribute(attr, value))
             ELSE SubSeq([a EXCEPT ![i] = a[Len(a)]], 1, Len(a) - 1)
        ELSE Append(a, Attribute(attr, value))

\* Set as it would be if unsetting truncated without storing the last pair at i.
SetDropsLast(a, attr, value) ==
    LET i == Scan(a, attr, 1)
    IN  IF i # 0
        THEN IF value # ""
             THEN [a EXCEPT ![i].Value = value]
             ELSE SubSeq(a, 1, Len(a) - 1)
        ELSE Append(a, Attribute(attr, value))

\* func (a *Attributes) Set(attr, value string)
\* The tuple assignment (*a)[i], *a = (*a)[len(*a)-1], (*a)[:len(*a)-1]
\* stores the last pair at i and then drops the last position.
Set(a, attr, value) ==
    LET i == Scan(a, attr, 1)
    IN  IF i # 0
        THEN IF value # ""
             THEN [a EXCEPT ![i].Value = value]
             ELSE SubSeq([a EXCEPT ![i] = a[Len(a)]], 1, Len(a) - 1)
        ELSE Append(a, Attribute(attr, value))

\* func (a Attributes) DOTAttributes() []dot.Attribute
DOTAttributes(a) == a

\* The positions of a that hold key k.
Positions(a, k) == {i \in 1..Len(a) : a[i].Key = k}

(***************************************************************************)
(* State.                                                                  *)
(***************************************************************************)
VARIABLES
    bag,      \* one Attributes value, as owned by a Node or an Edge
    acall,    \* the latest call made on bag
    aprev,    \* the call made on bag before acall
    rev,      \* the revision of the package that runs: "graph.go" or "part_003"
    nodeObj,  \* the allocated Node objects; a *Node is an index into it
    edgeObj,  \* the allocated Edge objects; an *Edge is an index into it
    gnodes,   \* g.UndirectedGraph's node table: ID -> *Node, 0 for absent
    gedges,   \* g.UndirectedGraph's adjacency: <<ID, ID>> -> *Edge, 0 for absent
    issued,   \* the IDs of the nodes NewNode has returned so far
    view,     \* the latest nodeInducedGraph made by Induce
    call,     \* the latest call made on the graph or the view
    nattrs,   \* the Attributes field of each Node object
    eattrs,   \* the Attributes field of each Edge object
    arev,     \* the revision of the analysis file: "analysis.go" or "part_004"
    rank,     \* the latest NodesByAttribute or EdgesByAttribute call
    pass      \* the latest analysis pass

\* The state of the single bag.
bvars == <<bag, acall, aprev>>

\* The attributes of the graph's nodes and edges, and the calls that use them.
pvars == <<nattrs, eattrs, arev, rank, pass>>

avars == <<bag, acall, aprev, nattrs, eattrs, arev, rank, pass>>

gvars == <<rev, nodeObj, edgeObj, gnodes, gedges, issued, view, call,
           nattrs, eattrs, arev, rank, pass>>

vars == <<bag, acall, aprev, rev, nodeObj, edgeObj, gnodes, gedges, issued, view, call,
          nattrs, eattrs, arev, rank, pass>>

NoCall == [op |-> "none", key |-> "", value |-> "", ret |-> "", pre |-> <<>>]

IDs == 0..MaxID

\* The *Node and *Edge values there can be: an undirected graph without self
\* edges holds at most one edge for each pair of different IDs.
NodeRefs == 1..MaxObjs

EdgeRefs == 1..(((MaxID + 1) * MaxID) \div 2)

NoRank == [op |-> "none", attr |-> "", list |-> <<>>, err |-> ""]

NoPass == [op |-> "none", prev |-> "none", ops |-> {}, n |-> 0, k |-> 0, mc |-> <<>>,
           raw |-> <<>>, preN |-> <<>>, preE |-> <<>>]

NoView == [made |-> FALSE, by |-> <<>>, nodes |-> {}]

NoGraphCall ==
    [op |-> "none", a |-> 0, b |-> 0, ret |-> 0, err |-> "", list |-> <<>>,
     preNodes |-> [x \in IDs |-> 0], preEdges |-> [p \in IDs \X IDs |-> 0],
     preIssued |-> {}]

\* simple.NewUndirectedGraph: no node, no edge; no view made yet.
EmptyGraph ==
    /\ nodeObj = <<>>
    /\ edgeObj = <<>>
    /\ gnodes = [x \in IDs |-> 0]
    /\ gedges = [p \in IDs \X IDs |-> 0]
    /\ issued = {}
    /\ view = NoView
    /\ call = NoGraphCall
    /\ nattrs = [n \in NodeRefs |-> <<>>]
    /\ eattrs = [e \in EdgeRefs |-> <<>>]
    /\ arev = "analysis.go"
    /\ rank = NoRank
    /\ pass = NoPass

InitBag ==
    /\ bag = <<>>
    /\ acall = NoCall
    /\ aprev = NoCall
    /\ rev = "graph.go"
    /\ EmptyGraph

\* a.Set(k, v) on the bag.
SetAttr ==
    \E k \in Keys, v \in Values :
        /\ Len(bag) < MaxAttrs
        /\ bag' = Set(bag, k, v)
        /\ acall' = [op |-> "Set", key |-> k, value |-> v, ret |-> "", pre |-> bag]
        /\ aprev' = acall
        /\ UNCHANGED gvars

\* a.Get(k) on the bag.
GetAttr ==
    \E k \in Keys :
        /\ bag' = bag
        /\ acall' = [op |-> "Get", key |-> k, value |-> "", ret |-> Get(bag, k), pre |-> bag]
        /\ aprev' = acall
        /\ UNCHANGED gvars

NextBag == SetAttr \/ GetAttr

SpecBag == InitBag /\ [][NextBag]_vars

(***************************************************************************)
(* Properties of the attribute list.                                       *)
(***************************************************************************)

\* C1: Get(k) called immediately after Set(k, v) with v non-empty returns v.
GetAfterSetReturnsValue ==
    (/\ acall.op = "Get"
     /\ aprev.op = "Set"
     /\ aprev.key = acall.key
     /\ aprev.value # "")
    => acall.ret = aprev.value

\* Reached when Get(k) follows a Set(k, v) that overwrote an earlier value.
GetAfterOverwriteSeen ==
    /\ acall.op = "Get"
    /\ aprev.op = "Set"
    /\ aprev.key = acall.key
    /\ aprev.value # ""
    /\ Get(aprev.pre, aprev.key) \notin {"", aprev.value}
    /\ Len(aprev.pre) > 1
    /\ acall.ret = aprev.value

\* C2: after Set(k, ""), Get(k) returns the empty string; if k was present
\* before the call the list is one pair shorter and holds no pair with key k.
UnsetRemovesPair ==
    /\ (/\ acall.op = "Get"
        /\ aprev.op = "Set"
        /\ aprev.key = acall.key
        /\ aprev.value = "")
       => acall.ret = ""
    /\ (/\ acall.op = "Set"
        /\ acall.value = ""
        /\ Positions(acall.pre, acall.key) # {})
       => /\ Len(bag) = Len(acall.pre) - 1
          /\ Positions(bag, acall.key) = {}
          /\ Get(bag, acall.key) = ""

\* Reached when Set(k, "") removed a pair that was not the last of the list.
UnsetOfInnerPairSeen ==
    /\ acall.op = "Set"
    /\ acall.value = ""
    /\ Positions(acall.pre, acall.key) # {}
    /\ Len(acall.pre) \notin Positions(acall.pre, acall.key)
    /\ Len(bag) = Len(acall.pre) - 1

\* C3: no key appears in more than one pair of the list.
KeysUnique ==
    \A i, j \in 1..Len(bag) : bag[i].Key = bag[j].Key => i = j

\* Reached after an overwrite, a deletion and an append have all acted on a
\* list that holds several pairs.
MixedSetsSeen ==
    /\ Len(bag) >= 2
    /\ aprev.op = "Set" /\ aprev.value = "" /\ Positions(aprev.pre, aprev.key) # {}
    /\ acall.op = "Set" /\ acall.value # "" /\ Positions(acall.pre, acall.key) # {}

(***************************************************************************)
(* Graph: type Graph struct { *simple.UndirectedGraph; ... }.  The embedded*)
(* gonum graph keeps a node table keyed by ID and a symmetric adjacency    *)
(* table; the methods NewEdge and NewNode call on it (Edge, SetEdge,       *)
(* AddNode, NewNodeID / NewNode) are modelled where they are called.       *)
(***************************************************************************)
Revs == {"graph.go", "part_003"}

\* func (n *Node) ID() int { return n.NodeID }
ID(n) == nodeObj[n].NodeID

\* The IDs that are registered in the node table t.
Registered(t) == {x \in IDs : t[x] # 0}

\* The Node objects held by the node table t.
NodeSet(t) == {t[x] : x \in Registered(t)}

\* The Edge objects held by the adjacency table t.
EdgeSet(t) == {t[p] : p \in {q \in IDs \X IDs : t[q] # 0}}

Max(S) == CHOOSE x \in S : \A y \in S : y <= x

\* g.NewNodeID() in graph.go, g.UndirectedGraph.NewNode().ID() in part_003:
\* 0 for a graph without nodes, otherwise one more than the largest ID in
\* use (no ID is ever freed, since nothing here removes a node).
NewNodeID(t) == IF Registered(t) = {} THEN 0 ELSE Max(Registered(t)) + 1

\* g.AddNode(n) as it would be if it overwrote on an ID collision.
AddNodeOverwrite(t, n) ==
    [err |-> "", nodes |-> [t EXCEPT ![ID(n)] = n]]

\* g.AddNode(n): panics when the ID is already in the node table.
AddNode(t, n) ==
    IF t[ID(n)] # 0
    THEN [err |-> "panic: node ID collision", nodes |-> t]
    ELSE [err |-> "", nodes |-> [t EXCEPT ![ID(n)] = n]]

\* The lookup as it would be if it consulted one order of the pair only.
EdgeOneOrder(t, xid, yid) == IF xid <= yid THEN t[<<xid, yid>>] ELSE 0

\* g.Edge(from, to) / g.EdgeBetween(x, y) on the embedded graph.
Edge(t, xid, yid) == t[<<xid, yid>>]

\* The node table after SetEdge has seen endpoint n: an absent node is
\* added; gonum v0.7.0 (part_003) stores a present one again.
Endpoint(t, n) ==
    IF t[ID(n)] = 0 THEN [t EXCEPT ![ID(n)] = n]
    ELSE IF rev = "part_003" THEN [t EXCEPT ![ID(n)] = n]
    ELSE t

\* SetEdge as it would be if it stored the edge in one direction only.
SetEdgeOneWay(g, from, to, e) ==
    IF ID(from) = ID(to)
    THEN [err |-> "panic: adding self edge", nodes |-> g.nodes, edges |-> g.edges]
    ELSE [err |-> "",
          nodes |-> Endpoint(Endpoint(g.nodes, from), to),
          edges |-> [g.edges EXCEPT ![<<ID(from), ID(to)>>] = e]]

\* SetEdge as it would be if it did not reject equal endpoint IDs.
SetEdgeNoSelfCheck(g, from, to, e) ==
    [err |-> "",
     nodes |-> Endpoint(Endpoint(g.nodes, from), to),
     edges |-> [g.edges EXCEPT ![<<ID(from), ID(to)>>] = e,
                               ![<<ID(to), ID(from)>>] = e]]

\* SetEdge as it would be if it did not add the endpoints that are missing.
SetEdgeNoAdd(g, from, to, e) ==
    IF ID(from) = ID(to)
    THEN [err |-> "panic: adding self edge", nodes |-> g.nodes, edges |-> g.edges]
    ELSE [err |-> "",
          nodes |-> g.nodes,
          edges |-> [g.edges EXCEPT ![<<ID(from), ID(to)>>] = e,
                                    ![<<ID(to), ID(from)>>] = e]]

\* g.SetEdge(e) for the Edge object e with e.F = from and e.T = to: panics
\* on equal IDs before it changes anything, adds the endpoints that are not
\* in the node table, and stores e under both orders of the pair.
SetEdge(g, from, to, e) ==
    IF ID(from) = ID(to)
    THEN [err |-> "panic: adding self edge", nodes |-> g.nodes, edges |-> g.edges]
    ELSE [err |-> "",
          nodes |-> Endpoint(Endpoint(g.nodes, from), to),
          edges |-> [g.edges EXCEPT ![<<ID(from), ID(to)>>] = e,
                                    ![<<ID(to), ID(from)>>] = e]]

GraphCall(op, a, b, ret, err, list) ==
    [op |-> op, a |-> a, b |-> b, ret |-> ret, err |-> err, list |-> list,
     preNodes |-> gnodes, preEdges |-> gedges, preIssued |-> issued]

InitGraph ==
    /\ bag = <<>>
    /\ acall = NoCall
    /\ aprev = NoCall
    /\ rev \in Revs
    /\ EmptyGraph

\* func (g *Graph) NewNode() graph.Node
\* graph.go:   n := &Node{NodeID: g.NewNodeID()}; g.AddNode(n); return n
\* part_003:   return &Node{NodeID: g.UndirectedGraph.NewNode().ID()}
NewNode ==
    /\ Len(nodeObj) < MaxObjs
    /\ NewNodeID(gnodes) <= MaxID
    /\ LET n == Len(nodeObj) + 1
       IN  /\ nodeObj' = Append(nodeObj, [NodeID |-> NewNodeID(gnodes)])
           /\ gnodes' = IF rev = "graph.go"
                        THEN [gnodes EXCEPT ![NewNodeID(gnodes)] = n]
                        ELSE gnodes
           /\ issued' = issued \cup {NewNodeID(gnodes)}
           /\ call' = GraphCall("NewNode", 0, 0, n, "", <<>>)
    /\ UNCHANGED <<rev, edgeObj, gedges, view, avars>>

\* A caller's own &Node{NodeID: id}: Node and its fields are exported.
MakeNode ==
    \E id \in IDs :
        /\ Len(nodeObj) < MaxObjs
        /\ nodeObj' = Append(nodeObj, [NodeID |-> id])
        /\ call' = GraphCall("MakeNode", id, 0, Len(nodeObj) + 1, "", <<>>)
        /\ UNCHANGED <<rev, edgeObj, gnodes, gedges, issued, view, avars>>

\* g.AddNode(n) through the embedded graph, as dot.Unmarshal does in
\* NewGraph with each node it got from g.NewNode().
RegisterNode ==
    \E n \in 1..Len(nodeObj) :
        LET r == AddNode(gnodes, n)
        IN  /\ gnodes' = r.nodes
            /\ call' = GraphCall("AddNode", n, 0, 0, r.err, <<>>)
            /\ UNCHANGED <<rev, nodeObj, edgeObj, gedges, issued, view, avars>>

\* func (g *Graph) NewEdge(from, to graph.Node) graph.Edge
NewEdge ==
    \E from, to \in 1..Len(nodeObj) :
        LET old == Edge(gedges, ID(from), ID(to))
            e == Len(edgeObj) + 1
            r == SetEdge([nodes |-> gnodes, edges |-> gedges], from, to, e)
        IN  IF old # 0
            THEN /\ call' = GraphCall("NewEdge", from, to, old, "", <<>>)
                 /\ UNCHANGED <<rev, nodeObj, edgeObj, gnodes, gedges, issued, view, avars>>
            ELSE IF r.err # ""
            THEN /\ call' = GraphCall("NewEdge", from, to, 0, r.err, <<>>)
                 /\ UNCHANGED <<rev, nodeObj, edgeObj, gnodes, gedges, issued, view, avars>>
            ELSE /\ edgeObj' = Append(edgeObj, [F |-> from, T |-> to])
                 /\ gnodes' = r.nodes
                 /\ gedges' = r.edges
                 /\ call' = GraphCall("NewEdge", from, to, e, "", <<>>)
                 /\ UNCHANGED <<rev, nodeObj, issued, view, avars>>

(***************************************************************************)
(* Induce and nodeInducedGraph (part_003).                                 *)
(***************************************************************************)
\* The sequences over S without repetition that list all of S: the orders
\* in which a Go map iteration can deliver its entries.
Orders(S) ==
    {s \in [1..Cardinality(S) -> S] : \A i, j \in 1..Cardinality(S) : s[i] = s[j] => i = j}

\* The sequences of at most n elements of S.
SeqsUpTo(S, n) == UNION {[1..k -> S] : k \in 0..n}

Range(s) == {s[i] : i \in 1..Len(s)}

\* for _, n := range by { i.nodes[n.ID()] = true }
RECURSIVE InduceNodes(_, _)
InduceNodes(by, i) ==
    IF i > Len(by) THEN {}
    ELSE {ID(by[i])} \cup InduceNodes(by, i + 1)

\* g.Graph.Nodes(): every node of the node table once, in any order.
GraphNodes == Orders({gnodes[x] : x \in Registered(gnodes)})

\* g.Graph.Edges(): every edge of the adjacency table once, in any order.
GraphEdges == Orders(EdgeSet(gedges))

\* g.Graph.Node(id)
GraphNode(id) == gnodes[id]

\* The filter loop as it would be if it advanced i after a removal too.
RECURSIVE KeepNodesSkipping(_, _, _)
KeepNodesSkipping(sel, n, i) ==
    IF i > Len(n) THEN n
    ELSE IF ID(n[i]) \notin sel
    THEN KeepNodesSkipping(sel, SubSeq([n EXCEPT ![i] = n[Len(n)]], 1, Len(n) - 1), i + 1)
    ELSE KeepNodesSkipping(sel, n, i + 1)

\* The loop of nodeInducedGraph.Nodes, from position i (1-based) on:
\*   if !g.nodes[n[i].ID()] { n[i], n = n[len(n)-1], n[:len(n)-1] } else { i++ }
RECURSIVE KeepNodes(_, _, _)
KeepNodes(sel, n, i) ==
    IF i > Len(n) THEN n
    ELSE IF ID(n[i]) \notin sel
    THEN KeepNodes(sel, SubSeq([n EXCEPT ![i] = n[Len(n)]], 1, Len(n) - 1), i)
    ELSE KeepNodes(sel, n, i + 1)

\* The loop of nodeInducedGraph.Edges, from position i (1-based) on:
\*   if !g.nodes[e[i].From().ID()] || !g.nodes[e[i].To().ID()] { remove } else { i++ }
RECURSIVE KeepEdges(_, _, _)
KeepEdges(sel, e, i) ==
    IF i > Len(e) THEN e
    ELSE IF ID(edgeObj[e[i]].F) \notin sel \/ ID(edgeObj[e[i]].T) \notin sel
    THEN KeepEdges(sel, SubSeq([e EXCEPT ![i] = e[Len(e)]], 1, Len(e) - 1), i)
    ELSE KeepEdges(sel, e, i + 1)

\* nodeInducedGraph.EdgeBetween as it would be if it tested xid only.
InducedEdgeBetweenOneSided(v, xid, yid) ==
    IF xid \notin v.nodes THEN 0
    ELSE Edge(gedges, xid, yid)

\* func (g nodeInducedGraph) EdgeBetween(xid, yid int64) graph.Edge
InducedEdgeBetween(v, xid, yid) ==
    IF xid \notin v.nodes \/ yid \notin v.nodes THEN 0
    ELSE Edge(gedges, xid, yid)

\* func Induce(g *Graph, by []*Node) graph.Graph
Induce ==
    \E by \in SeqsUpTo(1..Len(nodeObj), MaxBy) :
        /\ rev = "part_003"
        /\ view' = [made |-> TRUE, by |-> by, nodes |-> InduceNodes(by, 1)]
        /\ call' = GraphCall("Induce", 0, 0, 0, "", <<>>)
        /\ UNCHANGED <<rev, nodeObj, edgeObj, gnodes, gedges, issued, avars>>

\* nodeInducedGraph.Nodes as it would be if its removal loop ran on the
\* graph's own node table instead of on the copy graph.NodesOf makes.
NodesInPlace ==
    \E n \in GraphNodes :
        /\ view.made
        /\ gnodes' = [x \in IDs |-> IF x \in view.nodes THEN gnodes[x] ELSE 0]
        /\ call' = GraphCall("Nodes", 0, 0, 0, "", KeepNodes(view.nodes, n, 1))
        /\ UNCHANGED <<rev, nodeObj, edgeObj, gedges, issued, view, avars>>

\* func (g nodeInducedGraph) Nodes() graph.Nodes
Nodes ==
    \E n \in GraphNodes :
        /\ view.made
        /\ call' = GraphCall("Nodes", 0, 0, 0, "", KeepNodes(view.nodes, n, 1))
        /\ UNCHANGED <<rev, nodeObj, edgeObj, gnodes, gedges, issued, view, avars>>

\* func (g nodeInducedGraph) Edges() graph.Edges
Edges ==
    \E e \in GraphEdges :
        /\ view.made
        /\ call' = GraphCall("Edges", 0, 0, 0, "", KeepEdges(view.nodes, e, 1))
        /\ UNCHANGED <<rev, nodeObj, edgeObj, gnodes, gedges, issued, view, avars>>

\* g.EdgeBetween(x, y) on the Graph.
EdgeBetween ==
    \E xid, yid \in IDs :
        /\ call' = GraphCall("EdgeBetween", xid, yid, Edge(gedges, xid, yid), "", <<>>)
        /\ UNCHANGED <<rev, nodeObj, edgeObj, gnodes, gedges, issued, view, avars>>

\* i.EdgeBetween(x, y) on the nodeInducedGraph.
ViewEdgeBetween ==
    \E xid, yid \in IDs :
        /\ view.made
        /\ call' = GraphCall("ViewEdgeBetween", xid, yid, InducedEdgeBetween(view, xid, yid), "", <<>>)
        /\ UNCHANGED <<rev, nodeObj, edgeObj, gnodes, gedges, issued, view, avars>>

\* nodeInducedGraph.Node as it would be if it did not consult the selection.
InducedNodeUnfiltered(v, id) == GraphNode(id)

\* nodeInducedGraph.Node as it would be if it looked the node up among the
\* Node objects made so far instead of in the graph.
InducedNodeFirstMade(v, id) ==
    IF id \notin v.nodes THEN 0
    ELSE IF \E n \in 1..Len(nodeObj) : ID(n) = id
    THEN CHOOSE n \in 1..Len(nodeObj) : ID(n) = id /\ \A m \in 1..(n - 1) : ID(m) # id
    ELSE 0

\* func (g nodeInducedGraph) Node(id int64) graph.Node
InducedNode(v, id) ==
    IF id \notin v.nodes THEN 0
    ELSE GraphNode(id)

\* g.Graph.HasEdgeBetween(xid, yid) on the embedded graph; 1 for true.
GraphHasEdgeBetween(xid, yid) == IF gedges[<<xid, yid>>] # 0 THEN 1 ELSE 0

\* func (g nodeInducedGraph) HasEdgeBetween(xid, yid int64) bool; 1 for true.
InducedHasEdgeBetween(v, xid, yid) ==
    IF xid \notin v.nodes \/ yid \notin v.nodes THEN 0
    ELSE GraphHasEdgeBetween(xid, yid)

\* func (g nodeInducedGraph) Edge(uid, vid int64) graph.Edge
InducedEdge(v, uid, vid) == InducedEdgeBetween(v, uid, vid)

\* g.Graph.From(id): the nodes adjacent to id, each once, in any order; none
\* when id is not a node of the graph.
GraphFrom(id) ==
    IF gnodes[id] = 0 THEN {<<>>}
    ELSE Orders({gnodes[y] : y \in {z \in IDs : gedges[<<id, z>>] # 0}})

\* The loop of nodeInducedGraph.From over the neighbours n of id: the same
\* removal loop as in Nodes; id itself is not tested against the selection.
InducedFrom(v, id, n) == KeepNodes(v.nodes, n, 1)

\* i.Node(id) on the nodeInducedGraph.
ViewNode ==
    \E id \in IDs :
        /\ view.made
        /\ call' = GraphCall("ViewNode", id, 0, InducedNode(view, id), "", <<>>)
        /\ UNCHANGED <<rev, nodeObj, edgeObj, gnodes, gedges, issued, view, avars>>

\* func (g nodeInducedGraph) From(id int64) graph.Nodes
ViewFrom ==
    \E id \in IDs :
        \E n \in GraphFrom(id) :
            /\ view.made
            /\ call' = GraphCall("ViewFrom", id, 0, 0, "", InducedFrom(view, id, n))
            /\ UNCHANGED <<rev, nodeObj, edgeObj, gnodes, gedges, issued, view, avars>>

\* i.HasEdgeBetween(x, y) on the nodeInducedGraph.
ViewHasEdgeBetween ==
    \E xid, yid \in IDs :
        /\ view.made
        /\ call' = GraphCall("ViewHasEdgeBetween", xid, yid,
                             InducedHasEdgeBetween(view, xid, yid), "", <<>>)
        /\ UNCHANGED <<rev, nodeObj, edgeObj, gnodes, gedges, issued, view, avars>>

\* i.Edge(u, v) on the nodeInducedGraph.
ViewEdge ==
    \E uid, vid \in IDs :
        /\ view.made
        /\ call' = GraphCall("ViewEdge", uid, vid, InducedEdge(view, uid, vid), "", <<>>)
        /\ UNCHANGED <<rev, nodeObj, edgeObj, gnodes, gedges, issued, view, avars>>

\* The graph as its callers build it, in either revision.
NextGraph ==
    \/ NewNode \/ MakeNode \/ RegisterNode \/ NewEdge \/ EdgeBetween

Spec == InitGraph /\ [][NextGraph]_vars

InitView ==
    /\ bag = <<>>
    /\ acall = NoCall
    /\ aprev = NoCall
    /\ rev = "part_003"
    /\ EmptyGraph

\* The graph of part_003, built from the nodes NewNode hands out, and the
\* views induced on it.
NextView ==
    \/ NewNode \/ RegisterNode \/ NewEdge \/ EdgeBetween
    \/ Induce \/ Nodes \/ Edges \/ ViewEdgeBetween
    \/ ViewNode \/ ViewFrom \/ ViewHasEdgeBetween \/ ViewEdge

SpecView == InitView /\ [][NextView]_vars

(***************************************************************************)
(* Properties of the graph.                                                *)
(***************************************************************************)
NoRepeat(s) == \A i, j \in 1..Len(s) : s[i] = s[j] => i = j

\* The unordered pair of IDs that the Edge object e joins.
Ends(e) == {ID(edgeObj[e].F), ID(edgeObj[e].T)}

\* C4: NewEdge is idempotent.  When NewEdge(a, b) on registered nodes with
\* different IDs has returned an edge, a following NewEdge(a, b) or
\* NewEdge(b, a) returns the same Edge, creates nothing, and the graph holds
\* exactly one edge more than before the first call if the pair was not
\* joined then (and as many as before if it was).
NewEdgeIdempotent ==
    [][(/\ call.op = "NewEdge"
        /\ call.err = ""
        /\ call.preNodes[ID(call.a)] # 0
        /\ call.preNodes[ID(call.b)] # 0
        /\ call'.op = "NewEdge"
        /\ {ID(call'.a), ID(call'.b)} = {ID(call.a), ID(call.b)})
       => /\ call'.err = ""
          /\ call'.ret = call.ret
          /\ edgeObj' = edgeObj
          /\ gedges' = gedges
          /\ gnodes' = gnodes
          /\ Cardinality(EdgeSet(gedges')) =
                Cardinality(EdgeSet(call.preEdges))
                + (IF Edge(call.preEdges, ID(call.a), ID(call.b)) = 0 THEN 1 ELSE 0)
      ]_vars

\* Reached when NewEdge(a, b) has returned the edge that an earlier
\* NewEdge(b, a) created.
NewEdgeSwappedReturnsExisting ==
    /\ call.op = "NewEdge"
    /\ call.err = ""
    /\ call.ret # 0
    /\ call.a # call.b
    /\ Edge(call.preEdges, ID(call.a), ID(call.b)) = call.ret
    /\ edgeObj[call.ret].F = call.b
    /\ edgeObj[call.ret].T = call.a
    /\ gedges = call.preEdges

\* C5: NewEdge(a, a) fails (SetEdge panics on equal endpoint IDs) and leaves
\* the graph's nodes and edges as they were before the call.
SelfEdgeRejected ==
    (/\ call.op = "NewEdge"
     /\ ID(call.a) = ID(call.b))
    => /\ call.err # ""
       /\ call.ret = 0
       /\ gnodes = call.preNodes
       /\ gedges = call.preEdges

\* Reached when NewEdge(a, a) was called on a registered node of a graph that
\* already holds an edge at a.
SelfEdgeOnConnectedNodeSeen ==
    /\ call.op = "NewEdge"
    /\ call.a = call.b
    /\ gnodes[ID(call.a)] = call.a
    /\ \E y \in IDs : Edge(gedges, ID(call.a), y) # 0
    /\ call.err # ""

\* C6 as stated: NewEdge(a, b) with a or b not registered fails, creates no
\* edge and adds no node.
NewEdgeRejectsUnregistered ==
    (/\ call.op = "NewEdge"
     /\ \/ call.preNodes[ID(call.a)] = 0
        \/ call.preNodes[ID(call.b)] = 0)
    => /\ call.err # ""
       /\ gnodes = call.preNodes
       /\ gedges = call.preEdges

\* C6 as the code has it: NewEdge(a, b) with a or b not registered and
\* different IDs does not fail; it registers each endpoint that was missing,
\* adds no other node, and creates and returns one new edge joining a and b.
NewEdgeRegistersEndpoints ==
    (/\ call.op = "NewEdge"
     /\ ID(call.a) # ID(call.b)
     /\ \/ call.preNodes[ID(call.a)] = 0
        \/ call.preNodes[ID(call.b)] = 0)
    => /\ call.err = ""
       /\ call.ret # 0
       /\ call.ret \notin EdgeSet(call.preEdges)
       /\ edgeObj[call.ret] = [F |-> call.a, T |-> call.b]
       /\ Registered(gnodes) = Registered(call.preNodes) \cup {ID(call.a), ID(call.b)}
       /\ call.preNodes[ID(call.a)] = 0 => gnodes[ID(call.a)] = call.a
       /\ call.preNodes[ID(call.b)] = 0 => gnodes[ID(call.b)] = call.b
       /\ EdgeSet(gedges) = EdgeSet(call.preEdges) \cup {call.ret}
       /\ Edge(gedges, ID(call.a), ID(call.b)) = call.ret
       /\ Edge(gedges, ID(call.b), ID(call.a)) = call.ret

\* Reached when NewEdge joined a registered node to one that was not
\* registered.
NewEdgeToUnregisteredSeen ==
    /\ call.op = "NewEdge"
    /\ call.preNodes[ID(call.a)] = call.a
    /\ call.preNodes[ID(call.b)] = 0
    /\ call.err = ""
    /\ gnodes[ID(call.b)] = call.b
    /\ Edge(gedges, ID(call.a), ID(call.b)) = call.ret

\* C7: the enumerated nodes have pairwise distinct IDs (each is filed under
\* its own ID), every edge's endpoints have registered IDs, no edge joins
\* an ID to itself, and no two Edge objects join the same pair.  Endpoints
\* are compared by ID, as the graph compares them.
GraphWellFormed ==
    /\ \A x \in Registered(gnodes) : ID(gnodes[x]) = x
    /\ \A x, y \in Registered(gnodes) : x # y => ID(gnodes[x]) # ID(gnodes[y])
    /\ \A e \in EdgeSet(gedges) :
          /\ Ends(e) \subseteq Registered(gnodes)
          /\ Cardinality(Ends(e)) = 2
          /\ gedges[<<ID(edgeObj[e].F), ID(edgeObj[e].T)>>] = e
    /\ \A e1, e2 \in EdgeSet(gedges) : Ends(e1) = Ends(e2) => e1 = e2
    /\ \A p \in IDs \X IDs : gedges[p] # 0 => Ends(gedges[p]) = {p[1], p[2]}

\* Reached when three nodes are joined by at least two edges and the latest
\* call was a NewEdge that found its edge already there.
ThreeNodesTwoEdgesSeen ==
    /\ Cardinality(Registered(gnodes)) = 3
    /\ Cardinality(EdgeSet(gedges)) >= 2
    /\ call.op = "NewEdge"
    /\ call.ret # 0
    /\ call.ret \in EdgeSet(call.preEdges)

\* C8 as stated: NewNode returns a node whose ID is that of no node already
\* in the graph and of no node an earlier NewNode returned, and the node is
\* registered (found by ID lookup and by enumeration) when the call returns.
NewNodeFreshAndRegistered ==
    call.op = "NewNode"
    => /\ call.preNodes[ID(call.ret)] = 0
       /\ ID(call.ret) \notin call.preIssued
       /\ GraphNode(ID(call.ret)) = call.ret
       /\ \A n \in GraphNodes : call.ret \in Range(n)

(***************************************************************************)
(* Properties of the induced view.                                         *)
(***************************************************************************)

\* C9: EdgeBetween(a, b) and EdgeBetween(b, a) return the same result, on
\* the Graph and on the induced view: the same Edge, or not-found (0) in
\* both directions.
EdgeBetweenSymmetric ==
    /\ \A x, y \in IDs :
          /\ Edge(gedges, x, y) = Edge(gedges, y, x)
          /\ view.made => InducedEdgeBetween(view, x, y) = InducedEdgeBetween(view, y, x)
    /\ call.op = "EdgeBetween" => call.ret = Edge(gedges, call.b, call.a)
    /\ call.op = "ViewEdgeBetween" => call.ret = InducedEdgeBetween(view, call.b, call.a)

\* Reached when the view returned an edge asked for against the direction
\* in which it was created, while another edge of the graph is outside the
\* view.
ViewEdgeAskedBackwardsSeen ==
    /\ call.op = "ViewEdgeBetween"
    /\ call.ret # 0
    /\ ID(edgeObj[call.ret].F) = call.b
    /\ ID(edgeObj[call.ret].T) = call.a
    /\ \E e \in EdgeSet(gedges) : ~(Ends(e) \subseteq view.nodes)

\* The selection of the view: the set of IDs of the nodes in by.
Selection == {ID(view.by[i]) : i \in 1..Len(view.by)}

\* C10: with S the set of IDs in by, Nodes() yields exactly the nodes of g
\* whose ID is in S, each once, and Edges() yields exactly the edges of g
\* whose two endpoints have IDs in S, each once.
InducedEnumerationExact ==
    /\ view.made => view.nodes = Selection
    /\ call.op = "Nodes"
       => /\ NoRepeat(call.list)
          /\ Range(call.list) = {gnodes[x] : x \in Registered(gnodes) \cap Selection}
    /\ call.op = "Edges"
       => /\ NoRepeat(call.list)
          /\ Range(call.list) = {e \in EdgeSet(gedges) : Ends(e) \subseteq Selection}

\* Reached when Nodes() kept one of three nodes for a view made from a by
\* that names the same node twice.
NodesFilteredWithDuplicateBySeen ==
    /\ call.op = "Nodes"
    /\ Len(view.by) = 2
    /\ view.by[1] = view.by[2]
    /\ Cardinality(Registered(gnodes)) = 3
    /\ Len(call.list) = 1
    /\ EdgeSet(gedges) # {}

\* C11: on the view, Node(id) returns a node only if id is in the selection,
\* and then the graph's node with that ID; HasEdgeBetween, Edge and
\* EdgeBetween report an edge only if both IDs are in the selection and the
\* graph has an edge between them (Edge and EdgeBetween return that edge).
ViewLookupsRestricted ==
    /\ call.op = "ViewNode"
       => (call.ret # 0 => /\ call.a \in Selection
                           /\ call.ret = gnodes[call.a])
    /\ call.op = "ViewHasEdgeBetween"
       => (call.ret # 0 => /\ call.a \in Selection
                           /\ call.b \in Selection
                           /\ gedges[<<call.a, call.b>>] # 0)
    /\ call.op \in {"ViewEdge", "ViewEdgeBetween"}
       => (call.ret # 0 => /\ call.a \in Selection
                           /\ call.b \in Selection
                           /\ call.ret = gedges[<<call.a, call.b>>])

\* Reached when the view's Node(id) answered nil for a node that the graph
\* has and that has an edge to a selected node.
ViewNodeHidesUnselectedSeen ==
    /\ call.op = "ViewNode"
    /\ call.ret = 0
    /\ gnodes[call.a] # 0
    /\ \E y \in Selection : gedges[<<call.a, y>>] # 0

\* C12 as stated: on the view, From(id) returns only nodes of the selection,
\* returns no node when id is not in the selection, and y is in From(x)
\* exactly when HasEdgeBetween(x, y) is true on the view.
ViewFromMatchesHasEdgeBetween ==
    call.op = "ViewFrom"
    => /\ \A i \in 1..Len(call.list) : ID(call.list[i]) \in Selection
       /\ call.a \notin Selection => call.list = <<>>
       /\ \A y \in IDs :
             (\E i \in 1..Len(call.list) : ID(call.list[i]) = y)
             <=> InducedHasEdgeBetween(view, call.a, y) = 1

(***************************************************************************)
(* NodesByAttribute and EdgesByAttribute (analysis.go, same in part_004).  *)
(***************************************************************************)
\* The attribute values the callers write: decimal numbers, two spellings of
\* one number, the not-a-number spelling that ParseFloat accepts, and a word.
ScoreValues == {"2.0", "1", "1.0", "-1", "NaN", "abc"}

\* The pairs the callers write; the empty value unsets.
RankPairs == ({"score"} \X (ScoreValues \cup {""})) \cup {<<"desc", "x">>}

RankKeys == {"score", "desc"}

\* A float64: nan tells the not-a-number value, v is the number otherwise.
Float(v) == [err |-> "", nan |-> FALSE, v |-> v]

\* strconv.ParseFloat that takes every string for a number.
ParseFloatLenient(s) ==
    CASE s = "2.0" -> Float(2)
      [] s \in {"1", "1.0"} -> Float(1)
      [] s = "0" -> Float(0)
      [] s = "-1" -> Float(0 - 1)
      [] s = "NaN" -> [err |-> "", nan |-> TRUE, v |-> 0]
      [] OTHER -> Float(0)

\* strconv.ParseFloat(s, 64): the float64 a decimal spelling stands for, the
\* not-a-number value for "NaN", a syntax error for anything else.
ParseFloat(s) ==
    CASE s = "2.0" -> Float(2)
      [] s \in {"1", "1.0"} -> Float(1)
      [] s = "0" -> Float(0)
      [] s = "-1" -> Float(0 - 1)
      [] s = "NaN" -> [err |-> "", nan |-> TRUE, v |-> 0]
      [] OTHER -> [err |-> "invalid syntax", nan |-> FALSE, v |-> 0]

\* The inner loop of NodesByAttribute: v is 0 unless a pair has the key, and
\* then the first such pair is parsed.
AttrValue(a, attr) ==
    LET i == Scan(a, attr, 1)
    IN  IF i = 0 THEN Float(0) ELSE ParseFloat(a[i].Value)

\* The outer loop over the entities o with bags attrsOf: the entities and their
\* values side by side, or the first parse error met.
RECURSIVE Collect(_, _, _, _, _)
Collect(attrsOf, attr, o, i, vals) ==
    IF i > Len(o) THEN [err |-> "", items |-> o, vals |-> vals]
    ELSE LET p == AttrValue(attrsOf[o[i]], attr)
         IN  IF p.err # "" THEN [err |-> p.err, items |-> <<>>, vals |-> <<>>]
             ELSE Collect(attrsOf, attr, o, i + 1, Append(vals, p))

\* func (a nodesByAttr) Less(i, j int) bool { return a.vals[i] > a.vals[j] }
\* A float64 comparison with the not-a-number value is false.
Less(d, i, j) ==
    /\ ~d.vals[i].nan
    /\ ~d.vals[j].nan
    /\ d.vals[i].v > d.vals[j].v

\* func (a nodesByAttr) Swap(i, j int)
Swap(d, i, j) ==
    [d EXCEPT !.items = [d.items EXCEPT ![i] = d.items[j], ![j] = d.items[i]],
              !.vals = [d.vals EXCEPT ![i] = d.vals[j], ![j] = d.vals[i]]]

\* sort.Sort on fewer than 12 elements is an insertion sort:
\* for j := i; j > a && data.Less(j, j-1); j-- { data.Swap(j, j-1) }
RECURSIVE SortInsert(_, _)
SortInsert(d, j) ==
    IF j > 1 /\ Less(d, j, j - 1) THEN SortInsert(Swap(d, j, j - 1), j - 1)
    ELSE d

\* for i := a + 1; i < b; i++ { ... }
RECURSIVE SortFrom(_, _)
SortFrom(d, i) ==
    IF i > Len(d.items) THEN d
    ELSE SortFrom(SortInsert(d, i), i + 1)

Sort(d) == SortFrom(d, 2)

\* NodesByAttribute(attr, g) and EdgesByAttribute(attr, g) when g delivers its
\* entities in the order o: nil and the error, or the sorted entities.
ByAttribute(attrsOf, attr, o) ==
    LET c == Collect(attrsOf, attr, o, 1, <<>>)
    IN  IF c.err # "" THEN [list |-> <<>>, err |-> c.err]
        ELSE [list |-> Sort(c).items, err |-> ""]

\* The number of pairs in the bags of the graph's nodes and edges.
RECURSIVE SumLen(_, _)
SumLen(f, S) ==
    IF S = {} THEN 0
    ELSE LET x == CHOOSE y \in S : TRUE
         IN  Len(f[x]) + SumLen(f, S \ {x})

TotalPairs == SumLen(nattrs, NodeRefs) + SumLen(eattrs, EdgeRefs)

\* The edge lists of the graphs the specifications start from.
PathEdges == <<[F |-> 1, T |-> 2], [F |-> 2, T |-> 3]>>

\* A graph as NewNode, AddNode and NewEdge build it: three nodes, joined by
\* the edges es.
BuiltGraph(es) ==
    /\ nodeObj = [n \in NodeRefs |-> [NodeID |-> n - 1]]
    /\ edgeObj = es
    /\ gnodes = [x \in IDs |-> x + 1]
    /\ gedges = [p \in IDs \X IDs |->
                    IF \E e \in 1..Len(es) : {es[e].F - 1, es[e].T - 1} = {p[1], p[2]}
                    THEN CHOOSE e \in 1..Len(es) : {es[e].F - 1, es[e].T - 1} = {p[1], p[2]}
                    ELSE 0]
    /\ issued = IDs
    /\ view = NoView
    /\ call = NoGraphCall

InitRank ==
    /\ bag = <<>>
    /\ acall = NoCall
    /\ aprev = NoCall
    /\ rev = "graph.go"
    /\ arev = "analysis.go"
    /\ BuiltGraph(PathEdges)
    /\ nattrs = [n \in NodeRefs |-> <<>>]
    /\ eattrs = [e \in EdgeRefs |-> <<>>]
    /\ rank = NoRank
    /\ pass = NoPass

\* n.Attributes.Set(k, v) on a node of the graph.
SetNodeAttribute ==
    \E n \in NodeSet(gnodes), p \in RankPairs :
        /\ TotalPairs < MaxPairs
        /\ nattrs' = [nattrs EXCEPT ![n] = Set(@, p[1], p[2])]
        /\ rank' = NoRank
        /\ UNCHANGED <<bvars, rev, nodeObj, edgeObj, gnodes, gedges, issued, view, call,
                       eattrs, arev, pass>>

\* e.Attributes.Set(k, v) on an edge of the graph.
SetEdgeAttribute ==
    \E e \in EdgeSet(gedges), p \in RankPairs :
        /\ TotalPairs < MaxPairs
        /\ eattrs' = [eattrs EXCEPT ![e] = Set(@, p[1], p[2])]
        /\ rank' = NoRank
        /\ UNCHANGED <<bvars, rev, nodeObj, edgeObj, gnodes, gedges, issued, view, call,
                       nattrs, arev, pass>>

\* NodesByAttribute as it would be if it took a graph.Graph and were handed
\* the latest view: it ranks what the view's Nodes() delivers.
NodesByAttributeOfView ==
    \E attr \in RankKeys :
        \E n \in GraphNodes :
            LET o == IF view.made THEN KeepNodes(view.nodes, n, 1) ELSE n
                r == ByAttribute(nattrs, attr, o)
            IN  /\ rank' = [op |-> "NodesByAttribute", attr |-> attr,
                            list |-> r.list, err |-> r.err]
                /\ UNCHANGED <<bvars, rev, nodeObj, edgeObj, gnodes, gedges, issued, view,
                               call, nattrs, eattrs, arev, pass>>

\* func NodesByAttribute(attr string, g *Graph) ([]*Node, error)
NodesByAttribute ==
    \E attr \in RankKeys :
        \E o \in GraphNodes :
            LET r == ByAttribute(nattrs, attr, o)
            IN  /\ rank' = [op |-> "NodesByAttribute", attr |-> attr,
                            list |-> r.list, err |-> r.err]
                /\ UNCHANGED <<bvars, rev, nodeObj, edgeObj, gnodes, gedges, issued, view,
                               call, nattrs, eattrs, arev, pass>>

\* func EdgesByAttribute(attr string, g *Graph) ([]*Edge, error)
EdgesByAttribute ==
    \E attr \in RankKeys :
        \E o \in GraphEdges :
            LET r == ByAttribute(eattrs, attr, o)
            IN  /\ rank' = [op |-> "EdgesByAttribute", attr |-> attr,
                            list |-> r.list, err |-> r.err]
                /\ UNCHANGED <<bvars, rev, nodeObj, edgeObj, gnodes, gedges, issued, view,
                               call, nattrs, eattrs, arev, pass>>

\* A built graph, its attributes as the callers set them, and the rankings.
NextRank == SetNodeAttribute \/ SetEdgeAttribute \/ NodesByAttribute \/ EdgesByAttribute

SpecRank == InitRank /\ [][NextRank]_vars

\* The entities a ranking call ranks, and their bags.
Ranked == IF rank.op = "NodesByAttribute" THEN NodeSet(gnodes) ELSE EdgeSet(gedges)

RankedAttrs(x) == IF rank.op = "NodesByAttribute" THEN nattrs[x] ELSE eattrs[x]

\* The parsed value the latest ranking call gave to the entity x.
RankValue(x) == AttrValue(RankedAttrs(x), rank.attr)

\* x >= y on float64 values: false when either is the not-a-number value.
FloatGeq(x, y) == ~x.nan /\ ~y.nan /\ x.v >= y.v

\* C13 as stated: when every present value of the attribute parses, the
\* ranking returns every entity exactly once, and the value of each entity is
\* greater than or equal to the value of the entity after it.
RankingSortedDescending ==
    (rank.op # "none" /\ \A x \in Ranked : RankValue(x).err = "")
    => /\ rank.err = ""
       /\ Range(rank.list) = Ranked
       /\ NoRepeat(rank.list)
       /\ \A i \in 1..(Len(rank.list) - 1) :
             FloatGeq(RankValue(rank.list[i]), RankValue(rank.list[i + 1]))

\* The place of the entity x in the list the latest ranking call returned.
RankPlace(x) == CHOOSE i \in 1..Len(rank.list) : rank.list[i] = x

\* The entity x has no pair with the key of the latest ranking call.
Unkeyed(x) == Scan(RankedAttrs(x), rank.attr, 1) = 0

\* C14 as stated: an entity without the queried key raises no error, and in
\* the returned list it stands after every entity with a positive value and
\* before every entity with a negative value.
MissingKeyRanksAsZero ==
    rank.op # "none"
    => /\ (\A x \in Ranked : Unkeyed(x) \/ RankValue(x).err = "") => rank.err = ""
       /\ rank.err = ""
          => \A x, y \in Ranked :
                (Unkeyed(x) /\ ~Unkeyed(y) /\ ~RankValue(y).nan)
                => /\ RankValue(y).v > 0 => RankPlace(y) < RankPlace(x)
                   /\ RankValue(y).v < 0 => RankPlace(x) < RankPlace(y)

\* The strings that spell a float64.
FloatSpellings == {"2.0", "1", "1.0", "0", "-1", "NaN"}

\* C15: a ranking call on a graph where an entity carries the queried key
\* with a value that spells no float64 returns the parse error and no list,
\* and leaves the graph and every bag as they were.
RankingFailsOnNonNumber ==
    [][(rank' # rank /\ rank'.op # "none")
       => ((\E x \in Ranked' :
               ~Unkeyed(x)' /\ Get(RankedAttrs(x), rank.attr)' \notin FloatSpellings)
           => /\ rank'.err # ""
              /\ rank'.list = <<>>
              /\ UNCHANGED <<nodeObj, edgeObj, gnodes, gedges, nattrs, eattrs>>)]_vars

\* Reached when a ranking call failed on a graph where one entity carries a
\* number under the queried key and another carries a word.
RankingFailedPastNumberSeen ==
    /\ rank.op # "none"
    /\ rank.err # ""
    /\ \E x, y \in Ranked :
          /\ ~Unkeyed(x) /\ Get(RankedAttrs(x), rank.attr) \in FloatSpellings
          /\ ~Unkeyed(y) /\ Get(RankedAttrs(y), rank.attr) \notin FloatSpellings

(***************************************************************************)
(* The analysis passes (analysis.go and part_004).                         *)
(***************************************************************************)
ARevs == {"analysis.go", "part_004"}

\* fmt.Sprint of the numbers the gonum routines hand back.
PassValues == {"0", "1"}

TriangleEdges == <<[F |-> 1, T |-> 2], [F |-> 2, T |-> 3], [F |-> 1, T |-> 3]>>

OneEdge == <<[F |-> 1, T |-> 2]>>

\* A pass's write of the pair (key, value) to the bag a:
\* analysis.go:  nodes[id].Attributes = []dot.Attribute{{key, value}}
\* part_004:     nodes[id].Attributes.Set(key, value)
WriteResult(a, key, value) ==
    IF arev = "analysis.go" THEN <<Attribute(key, value)>>
    ELSE Set(a, key, value)

\* for id, w := range rank { write w to the node with that ID }
NodeResults(key, w) ==
    [n \in NodeRefs |->
        IF n \in DOMAIN w THEN WriteResult(nattrs[n], key, w[n]) ELSE nattrs[n]]

\* The record of a pass that is about to run.
PassCall(op, k, mc) ==
    [op |-> op, prev |-> pass.op, ops |-> pass.ops \cup {op}, n |-> pass.n + 1,
     k |-> k, mc |-> mc, raw |-> <<>>,
     preN |-> nattrs, preE |-> eattrs]

\* A pass over the nodes: the gonum routine gives a number for every node of
\* the graph, and the loop writes each to its node.
NodePass(op, key) ==
    \E w \in [NodeSet(gnodes) -> PassValues] :
        /\ pass.n < MaxRuns
        /\ nattrs' = NodeResults(key, w)
        /\ pass' = PassCall(op, 0, <<>>)
        /\ UNCHANGED <<bvars, rev, nodeObj, edgeObj, gnodes, gedges, issued, view, call,
                       eattrs, arev, rank>>

\* func PageRank(g *Graph, damp, tol float64)
PageRank == NodePass("PageRank", "rank")

\* func Closeness(g *Graph)
Closeness == NodePass("Closeness", "closeness")

\* func Farness(g *Graph)
Farness == NodePass("Farness", "farness")

\* fmt.Sprint of the numbers network.Betweenness retains: it "does not retain
\* zero betweenness values".
RawValues == PassValues \ {"0"}

\* Betweenness without its first loop.
BetweennessNoFill(raw) == raw

\* for _, n := range nodes { if _, ok := rank[n.ID()]; !ok { rank[n.ID()] = 0 } }
BetweennessFill(raw) ==
    [n \in NodeSet(gnodes) |-> IF n \in DOMAIN raw THEN raw[n] ELSE "0"]

\* func Betweenness(g *Graph): the routine leaves out the nodes whose value is
\* zero, the first loop fills them in and the second writes every number.
Betweenness ==
    \E S \in SUBSET NodeSet(gnodes) :
        \E raw \in [S -> RawValues] :
            /\ pass.n < MaxRuns
            /\ nattrs' = NodeResults("betweenness", BetweennessFill(raw))
            /\ pass' = [PassCall("Betweenness", 0, <<>>) EXCEPT !.raw = raw]
            /\ UNCHANGED <<bvars, rev, nodeObj, edgeObj, gnodes, gedges, issued, view,
                           call, eattrs, arev, rank>>

\* func Communities(g *Graph, resolution float64): every node is in one
\* community and gets that community's index.
Communities == NodePass("Communities", "community")

\* func EdgeBetweenness(g *Graph): the routine gives a number for some of the
\* edges, and the loop writes each to the edge g.EdgeBetween finds.
EdgeBetweenness ==
    \E S \in SUBSET EdgeSet(gedges) :
        \E w \in [S -> PassValues] :
            /\ pass.n < MaxRuns
            /\ eattrs' = [e \in EdgeRefs |->
                             IF e \in S THEN WriteResult(eattrs[e], "edge_betweenness", w[e])
                             ELSE eattrs[e]]
            /\ pass' = PassCall("EdgeBetweenness", 0, <<>>)
            /\ UNCHANGED <<bvars, rev, nodeObj, edgeObj, gnodes, gedges, issued, view, call,
                           nattrs, arev, rank>>

\* The maximal cliques of the graph, as sets of node IDs; a node without
\* neighbours is a clique of one.
MaximalCliques ==
    {c \in SUBSET Registered(gnodes) \ {{}} :
        /\ \A x, y \in c : x # y => gedges[<<x, y>>] # 0
        /\ \A z \in Registered(gnodes) \ c : \E x \in c : gedges[<<z, x>>] = 0}

\* topo.BronKerbosch(g): the maximal cliques, in any order.
BronKerbosch == Orders(MaximalCliques)

\* fmt.Sprint(i) and the %d of fmt.Sprintf for an int.
Sprint(i) == ToString(i)

\* len(strings.Split(v, ",")) for a list v of labels: the labels here are
\* below 10 and so one character each, and a list of n labels has n - 1 commas
\* and 2n - 1 characters.
SplitLen(v) == (Len(v) + 1) \div 2

\* The body of Clique's loop over the nodes of a kept clique as it would be if
\* part_004 did not consult "clique_count".
CliqueVisitAlwaysExtend(a, i) ==
    LET j == Scan(a, "clique", 1)
    IN  IF j # 0
        THEN [a EXCEPT ![j] = Attribute("clique", a[j].Value \o "," \o Sprint(i))]
        ELSE IF arev = "analysis.go"
        THEN <<Attribute("clique", Sprint(i))>>
        ELSE Set(Set(a, "clique", Sprint(i)), "clique_count", "")

\* The body of Clique's loop over the nodes of a kept clique, for the node
\* whose bag is a and the label i.
\* analysis.go: extend the "clique" pair, or replace the bag by one pair.
\* part_004: extend the "clique" pair only if "clique_count" reads empty;
\*           otherwise Set("clique", i) and Set("clique_count", "").
CliqueVisit(a, i) ==
    LET j == IF arev = "analysis.go" \/ Get(a, "clique_count") = ""
             THEN Scan(a, "clique", 1)
             ELSE 0
    IN  IF j # 0
        THEN [a EXCEPT ![j] = Attribute("clique", a[j].Value \o "," \o Sprint(i))]
        ELSE IF arev = "analysis.go"
        THEN <<Attribute("clique", Sprint(i))>>
        ELSE Set(Set(a, "clique", Sprint(i)), "clique_count", "")

\* Clique's loop over the cliques, giving a label also to the cliques it
\* discards.
RECURSIVE CliqueLabelsCountingAll(_, _, _, _, _)
CliqueLabelsCountingAll(attrs, mc, c, i, k) ==
    IF c > Len(mc) THEN attrs
    ELSE IF Cardinality(mc[c]) < k THEN CliqueLabelsCountingAll(attrs, mc, c + 1, i + 1, k)
    ELSE CliqueLabelsCountingAll(
             [n \in NodeRefs |->
                 IF \E id \in mc[c] : gnodes[id] = n THEN CliqueVisit(attrs[n], i)
                 ELSE attrs[n]],
             mc, c + 1, i + 1, k)

\* Clique's loop over the cliques mc from the c-th on, i being the next label:
\* a clique of fewer than k nodes is passed over, any other is visited node
\* by node and then i is incremented.
RECURSIVE CliqueLabels(_, _, _, _, _)
CliqueLabels(attrs, mc, c, i, k) ==
    IF c > Len(mc) THEN attrs
    ELSE IF Cardinality(mc[c]) < k THEN CliqueLabels(attrs, mc, c + 1, i, k)
    ELSE CliqueLabels(
             [n \in NodeRefs |->
                 IF \E id \in mc[c] : gnodes[id] = n THEN CliqueVisit(attrs[n], i)
                 ELSE attrs[n]],
             mc, c + 1, i + 1, k)

\* The body of Clique's last loop for the node whose bag is a: the number of
\* labels in the first "clique" pair goes to "clique_count",
\* appended in analysis.go, through Set in part_004.
CliqueCount(a) ==
    LET j == Scan(a, "clique", 1)
    IN  IF j = 0 THEN a
        ELSE IF arev = "analysis.go"
        THEN Append(a, Attribute("clique_count", Sprint(SplitLen(a[j].Value))))
        ELSE Set(a, "clique_count", Sprint(SplitLen(a[j].Value)))

\* func Clique(g *Graph, k int)
Clique ==
    \E k \in 1..MaxK :
        \E mc \in BronKerbosch :
            LET labelled == CliqueLabels(nattrs, mc, 1, 0, k)
            IN  /\ pass.n < MaxRuns
                /\ nattrs' = [n \in NodeRefs |->
                                 IF n \in NodeSet(gnodes) THEN CliqueCount(labelled[n])
                                 ELSE labelled[n]]
                /\ pass' = PassCall("Clique", k, mc)
                /\ UNCHANGED <<bvars, rev, nodeObj, edgeObj, gnodes, gedges, issued, view,
                               call, eattrs, arev, rank>>

\* A graph read from a DOT file: some nodes and edges carry a description.
InitPass ==
    /\ bag = <<>>
    /\ acall = NoCall
    /\ aprev = NoCall
    /\ rev = "graph.go"
    /\ arev \in ARevs
    /\ \E es \in {PathEdges, TriangleEdges, OneEdge} : BuiltGraph(es)
    /\ nattrs = [n \in NodeRefs |-> IF n <= 2 THEN <<Attribute("desc", "x")>> ELSE <<>>]
    /\ eattrs = [e \in EdgeRefs |-> IF e = 1 THEN <<Attribute("desc", "x")>> ELSE <<>>]
    /\ rank = NoRank
    /\ pass = NoPass

\* The analysis passes run one after another on a graph, in either revision.
NextPass ==
    \/ PageRank \/ Closeness \/ Farness \/ Betweenness \/ EdgeBetweenness
    \/ Communities \/ Clique

SpecPass == InitPass /\ [][NextPass]_vars

\* The cliques the latest Clique call kept, in the order it met them: the
\* i-th of them has the label i - 1.
Surviving == SelectSeq(pass.mc, LAMBDA c : Cardinality(c) >= pass.k)

\* The labels, comma-joined in ascending order, of the cliques from the i-th
\* of surv on that hold the node ID id, after the list acc.
RECURSIVE JoinLabels(_, _, _, _)
JoinLabels(surv, id, i, acc) ==
    IF i > Len(surv) THEN acc
    ELSE IF id \notin surv[i] THEN JoinLabels(surv, id, i + 1, acc)
    ELSE JoinLabels(surv, id, i + 1,
                    IF acc = "" THEN Sprint(i - 1) ELSE acc \o "," \o Sprint(i - 1))

\* No node carried "clique" or "clique_count" when the latest pass began.
CliqueFree ==
    \A n \in NodeSet(gnodes) :
        Scan(pass.preN[n], "clique", 1) = 0 /\ Scan(pass.preN[n], "clique_count", 1) = 0

\* C16: after Clique on a graph that carried no "clique" and no "clique_count",
\* each node's "clique" value lists, in ascending order, the labels of exactly
\* the kept cliques that hold it, the kept cliques being numbered from 0 in the
\* order the enumerator gave them; a node in no kept clique has neither key.
CliqueLabelsKeptCliques ==
    (pass.op = "Clique" /\ CliqueFree)
    => \A id \in Registered(gnodes) :
          LET a == nattrs[gnodes[id]]
              want == JoinLabels(Surviving, id, 1, "")
          IN  IF want = ""
              THEN Scan(a, "clique", 1) = 0 /\ Scan(a, "clique_count", 1) = 0
              ELSE Get(a, "clique") = want /\ Cardinality(Positions(a, "clique")) = 1

\* Reached when Clique ran on a graph without clique attributes, and the
\* enumerator gave a clique that was discarded before one that was kept.
DiscardedCliqueBeforeKeptSeen ==
    /\ pass.op = "Clique"
    /\ CliqueFree
    /\ \E i, j \in 1..Len(pass.mc) :
          /\ i < j
          /\ Cardinality(pass.mc[i]) < pass.k
          /\ Cardinality(pass.mc[j]) >= pass.k

\* The list a followed by the list b.
Followed(a, b) == IF a = "" THEN b ELSE IF b = "" THEN a ELSE a \o "," \o b

\* The node IDs in a clique the latest Clique call kept.
InSurviving == UNION {Surviving[i] : i \in 1..Len(Surviving)}

\* C17 as stated: after a second Clique run, the "clique" value of every node
\* in a kept clique is its value after the first run followed by the labels of
\* the second run.
CliqueRerunAccumulates ==
    (pass.op = "Clique" /\ pass.prev = "Clique")
    => \A id \in InSurviving :
          Get(nattrs[gnodes[id]], "clique")
          = Followed(Get(pass.preN[gnodes[id]], "clique"), JoinLabels(Surviving, id, 1, ""))

\* C17 amended: a second Clique run accumulates in analysis.go and replaces
\* in part_004, where the "clique" value of every node in a kept clique is
\* the labels of the second run alone; in both, a node in no kept clique of the
\* second run keeps its value.
CliqueRerunByRevision ==
    (pass.op = "Clique" /\ pass.prev = "Clique")
    => \A id \in Registered(gnodes) :
          LET now == Get(nattrs[gnodes[id]], "clique")
              was == Get(pass.preN[gnodes[id]], "clique")
              new == JoinLabels(Surviving, id, 1, "")
          IN  IF id \notin InSurviving THEN now = was
              ELSE IF arev = "analysis.go" THEN now = Followed(was, new)
              ELSE now = new

\* Reached when part_004's Clique ran a second time and kept a clique with a
\* node that the first run had labelled.
CliqueRerunOverLabelledSeen ==
    /\ pass.op = "Clique"
    /\ pass.prev = "Clique"
    /\ arev = "part_004"
    /\ \E id \in InSurviving : Get(pass.preN[gnodes[id]], "clique") # ""

\* C18 as stated: after Clique runs only, every node with a "clique" pair has
\* one "clique" pair and one "clique_count" pair, and Get("clique_count") is
\* the number of labels in Get("clique").
CliqueCountMatchesLabels ==
    (pass.op = "Clique" /\ pass.ops = {"Clique"})
    => \A n \in NodeSet(gnodes) :
          Scan(nattrs[n], "clique", 1) # 0
          => /\ Get(nattrs[n], "clique_count") = Sprint(SplitLen(Get(nattrs[n], "clique")))
             /\ Cardinality(Positions(nattrs[n], "clique")) = 1
             /\ Cardinality(Positions(nattrs[n], "clique_count")) = 1

\* The keys each pass is documented to write.
Written(op) ==
    CASE op = "PageRank" -> {"rank"}
      [] op = "Closeness" -> {"closeness"}
      [] op = "Farness" -> {"farness"}
      [] op = "Betweenness" -> {"betweenness"}
      [] op = "EdgeBetweenness" -> {"edge_betweenness"}
      [] op = "Communities" -> {"community"}
      [] op = "Clique" -> {"clique", "clique_count"}
      [] OTHER -> {}

PassKeys ==
    {"desc", "rank", "closeness", "farness", "betweenness", "edge_betweenness",
     "community", "clique", "clique_count"}

\* C19 as stated: a pass leaves, in every node's and edge's bag, the value of
\* every key it is not documented to write as it was.
PassKeepsOtherKeys ==
    pass.op # "none"
    => \A key \in PassKeys \ Written(pass.op) :
          /\ \A n \in NodeSet(gnodes) : Get(nattrs[n], key) = Get(pass.preN[n], key)
          /\ \A e \in EdgeSet(gedges) : Get(eattrs[e], key) = Get(pass.preE[e], key)

(***************************************************************************)
(* Attribute writes through the handles a view and its graph hand out      *)
(* (part_003).                                                             *)
(***************************************************************************)
\* A graph of part_003 after n1 := g.NewNode(); n2 := g.NewNode() (both with
\* ID 0, neither registered), g.AddNode(n1), n3 := g.NewNode() (ID 1) and
\* g.NewEdge(n2, n3): SetEdge has put n2 in the place of n1.
ReplacedGraph ==
    /\ nodeObj = <<[NodeID |-> 0], [NodeID |-> 0], [NodeID |-> 1]>>
    /\ edgeObj = <<[F |-> 2, T |-> 3]>>
    /\ gnodes = [x \in IDs |-> CASE x = 0 -> 2 [] x = 1 -> 3 [] OTHER -> 0]
    /\ gedges = [p \in IDs \X IDs |-> IF p \in {<<0, 1>>, <<1, 0>>} THEN 1 ELSE 0]
    /\ issued = {0, 1}
    /\ view = NoView
    /\ call = NoGraphCall

InitAlias ==
    /\ bag = <<>>
    /\ acall = NoCall
    /\ aprev = NoCall
    /\ rev = "part_003"
    /\ arev = "part_004"
    /\ ReplacedGraph \/ BuiltGraph(OneEdge)
    /\ nattrs = [n \in NodeRefs |-> <<>>]
    /\ eattrs = [e \in EdgeRefs |-> <<>>]
    /\ rank = NoRank
    /\ pass = NoPass

\* The *Node values the view hands out: from Node, Nodes and From.
ViewNodeHandles ==
    ({InducedNode(view, id) : id \in IDs} \ {0})
    \cup UNION {Range(KeepNodes(view.nodes, n, 1)) : n \in GraphNodes}
    \cup UNION {UNION {Range(InducedFrom(view, id, n)) : n \in GraphFrom(id)} : id \in IDs}

\* The *Edge values the view hands out: from Edges, Edge and EdgeBetween.
ViewEdgeHandles ==
    (({InducedEdgeBetween(view, p[1], p[2]) : p \in IDs \X IDs}
      \cup {InducedEdge(view, p[1], p[2]) : p \in IDs \X IDs}) \ {0})
    \cup UNION {Range(KeepEdges(view.nodes, e, 1)) : e \in GraphEdges}

\* The record of an attribute write through a handle.
HandleSet(k, v) == [op |-> "Set", key |-> k, value |-> v, ret |-> "", pre |-> <<>>]

\* h.Attributes.Set(k, v) on a node h that the view handed out.
SetThroughView ==
    \E h \in ViewNodeHandles, k \in {"k1"}, v \in Values :
        /\ view.made
        /\ TotalPairs < MaxPairs
        /\ nattrs' = [nattrs EXCEPT ![h] = Set(@, k, v)]
        /\ acall' = HandleSet(k, v)
        /\ call' = GraphCall("SetThroughView", ID(h), 0, h, "", <<>>)
        /\ UNCHANGED <<bag, aprev, rev, nodeObj, edgeObj, gnodes, gedges, issued, view,
                       eattrs, arev, rank, pass>>

\* h.Attributes.Set(k, v) on an edge h that the view handed out.
SetEdgeThroughView ==
    \E h \in ViewEdgeHandles, k \in {"k1"}, v \in Values :
        /\ view.made
        /\ TotalPairs < MaxPairs
        /\ eattrs' = [eattrs EXCEPT ![h] = Set(@, k, v)]
        /\ acall' = HandleSet(k, v)
        /\ call' = GraphCall("SetEdgeThroughView", ID(edgeObj[h].F), ID(edgeObj[h].T),
                             h, "", <<>>)
        /\ UNCHANGED <<bag, aprev, rev, nodeObj, edgeObj, gnodes, gedges, issued, view,
                       nattrs, arev, rank, pass>>

\* g.Node(id).Attributes.Set(k, v) on the graph itself.
SetThroughGraph ==
    \E id \in Registered(gnodes), k \in {"k1"}, v \in Values :
        /\ TotalPairs < MaxPairs
        /\ nattrs' = [nattrs EXCEPT ![GraphNode(id)] = Set(@, k, v)]
        /\ acall' = HandleSet(k, v)
        /\ call' = GraphCall("SetThroughGraph", id, 0, GraphNode(id), "", <<>>)
        /\ UNCHANGED <<bag, aprev, rev, nodeObj, edgeObj, gnodes, gedges, issued, view,
                       eattrs, arev, rank, pass>>

\* g.EdgeBetween(x, y).Attributes.Set(k, v) on the graph itself.
SetEdgeThroughGraph ==
    \E h \in EdgeSet(gedges), k \in {"k1"}, v \in Values :
        /\ TotalPairs < MaxPairs
        /\ eattrs' = [eattrs EXCEPT ![h] = Set(@, k, v)]
        /\ acall' = HandleSet(k, v)
        /\ call' = GraphCall("SetEdgeThroughGraph", ID(edgeObj[h].F), ID(edgeObj[h].T),
                             h, "", <<>>)
        /\ UNCHANGED <<bag, aprev, rev, nodeObj, edgeObj, gnodes, gedges, issued, view,
                       nattrs, arev, rank, pass>>

\* A graph of part_003, the views induced on it, and attribute writes through
\* the handles of either.
NextAlias ==
    \/ Induce \/ SetThroughView \/ SetEdgeThroughView
    \/ SetThroughGraph \/ SetEdgeThroughGraph

SpecAlias == InitAlias /\ [][NextAlias]_vars

\* C20: a value written through a node or edge handle of the view is read,
\* under the same key, from the entity with that ID taken from the graph; and
\* a value written through the graph's entity is read from every handle with
\* that ID that the view hands out.
ViewHandlesAliasGraph ==
    /\ call.op = "SetThroughView"
       => Get(nattrs[GraphNode(call.a)], acall.key) = acall.value
    /\ call.op = "SetEdgeThroughView"
       => Get(eattrs[Edge(gedges, call.a, call.b)], acall.key) = acall.value
    /\ (call.op = "SetThroughGraph" /\ view.made)
       => \A h \in ViewNodeHandles :
             ID(h) = call.a => Get(nattrs[h], acall.key) = acall.value
    /\ (call.op = "SetEdgeThroughGraph" /\ view.made)
       => \A h \in ViewEdgeHandles :
             {ID(edgeObj[h].F), ID(edgeObj[h].T)} = {call.a, call.b}
             => Get(eattrs[h], acall.key) = acall.value

\* Reached when a value was written through a node handle of the view, over
\* another value, on a graph that holds a second Node object with the same ID.
SetThroughViewOnReplacedNodeSeen ==
    /\ call.op = "SetThroughView"
    /\ acall.value = "y"
    /\ \E n \in 1..Len(nodeObj) : n # call.ret /\ ID(n) = call.a
    /\ \E e \in EdgeSet(gedges) : Get(eattrs[e], "k1") = "x"

\* The operations of the value Induce returns, and Induce itself.
ViewOps ==
    {"Induce", "Nodes", "Edges", "ViewNode", "ViewFrom", "ViewHasEdgeBetween",
     "ViewEdge", "ViewEdgeBetween"}

Scored(ns, es) ==
    /\ nattrs = [n \in NodeRefs |-> IF n <= Len(ns) THEN ns[n] ELSE <<>>]
    /\ eattrs = [e \in EdgeRefs |-> IF e <= Len(es) THEN es[e] ELSE <<>>]

Score(v) == <<Attribute("score", v)>>

InitViewRank ==
    /\ bag = <<>>
    /\ acall = NoCall
    /\ aprev = NoCall
    /\ rev = "part_003"
    /\ arev = "part_004"
    /\ BuiltGraph(PathEdges)
    /\ \/ Scored(<<Score("2.0"), Score("1"), <<>>>>, <<Score("1.0"), Score("-1")>>)
       \/ Scored(<<Score("1"), Score("1.0"), Score("2.0")>>, <<<<>>, Score("1")>>)
    /\ rank = NoRank
    /\ pass = NoPass

\* Views induced on a scored graph, and rankings of the graph.
NextViewRank == Induce \/ NodesByAttribute \/ EdgesByAttribute

SpecViewRank == InitViewRank /\ [][NextViewRank]_vars

\* The entities of the latest view that the latest ranking call has to do
\* with: its nodes, or its edges.
ViewRanked ==
    IF rank.op = "NodesByAttribute"
    THEN {n \in NodeSet(gnodes) : ID(n) \in view.nodes}
    ELSE {e \in EdgeSet(gedges) : Ends(e) \subseteq view.nodes}

\* C22 as stated: the ranking of a caller that holds a view returns exactly
\* the view's entities, in descending order of the attribute.
RankingReturnsViewEntities ==
    (rank.op # "none" /\ rank.err = "" /\ view.made)
    => /\ Range(rank.list) = ViewRanked
       /\ \A i \in 1..(Len(rank.list) - 1) :
             FloatGeq(RankValue(rank.list[i]), RankValue(rank.list[i + 1]))

\* C22 amended: the ranking takes the graph itself, and returns every node
\* (edge) of the graph once, whatever view has been induced on the graph.
RankingReturnsGraphEntities ==
    (rank.op # "none" /\ rank.err = "")
    => /\ Range(rank.list) = Ranked
       /\ NoRepeat(rank.list)

\* Reached when the nodes were ranked on a graph that has a view with a
\* selection, and the list holds a node that is not in the selection.
RankedNodeOutsideViewSeen ==
    /\ rank.op = "NodesByAttribute"
    /\ rank.err = ""
    /\ view.made
    /\ view.nodes # {}
    /\ \E i \in 1..Len(rank.list) : ID(rank.list[i]) \notin view.nodes

(***************************************************************************)
(* Betweenness on every node.                                              *)
(***************************************************************************)
\* C23: after Betweenness every node of the graph carries a "betweenness"
\* pair whose value parses as a number, and a node the routine's raw result
\* left out carries the value "0".
BetweennessOnEveryNode ==
    pass.op = "Betweenness"
    => \A n \in NodeSet(gnodes) :
          /\ Scan(nattrs[n], "betweenness", 1) # 0
          /\ ParseFloat(Get(nattrs[n], "betweenness")).err = ""
          /\ n \notin DOMAIN pass.raw => Get(nattrs[n], "betweenness") = "0"

\* Reached when Betweenness ran on a graph of three nodes and the routine's
\* raw result had a number for one node only.
BetweennessFilledInSeen ==
    /\ pass.op = "Betweenness"
    /\ Cardinality(NodeSet(gnodes)) = 3
    /\ Cardinality(DOMAIN pass.raw) = 1

(***************************************************************************)
(* The attribute list: what Set leaves alone.                              *)
(***************************************************************************)
\* The keys of the pairs that DOTAttributes enumerates.
EnumeratedKeys(a) == {DOTAttributes(a)[i].Key : i \in 1..Len(DOTAttributes(a))}

\* The pairs of a whose key is not k.
OtherPairs(a, k) == {a[i] : i \in {j \in 1..Len(a) : a[j].Key # k}}

\* C24: Set(k, "") for a key that is absent leaves the list as it was; no
\* enumerated pair has an empty value, and the enumerated keys are exactly
\* the keys for which Get returns a non-empty string.
UnsetOfAbsentKeyIsNoOp ==
    /\ (/\ acall.op = "Set"
        /\ acall.value = ""
        /\ Positions(acall.pre, acall.key) = {})
       => bag = acall.pre
    /\ \A i \in 1..Len(DOTAttributes(bag)) : DOTAttributes(bag)[i].Value # ""
    /\ EnumeratedKeys(bag) = {k \in Keys : Get(bag, k) # ""}

SetTouchesOnlyItsKey ==
    acall.op = "Set"
    => /\ \A k \in Keys \ {acall.key} : Get(bag, k) = Get(acall.pre, k)
       /\ OtherPairs(bag, acall.key) = OtherPairs(acall.pre, acall.key)

\* Reached when Set(k, "") removed the first of three pairs, the other two
\* with values of their own.
UnsetOfFirstOfThreeSeen ==
    /\ acall.op = "Set"
    /\ acall.value = ""
    /\ Len(acall.pre) = 3
    /\ Scan(acall.pre, acall.key, 1) = 1
    /\ acall.pre[2].Value # ""
    /\ acall.pre[3].Value # ""
    /\ Len(bag) = 2

====
